---- MODULE Spec2Model ----
(***************************************************************************)
(* Model of the stock forecast endpoint of chatbot-app-backend/main.py:    *)
(* predict_stock, predict_future_years_realistic, prepare_data,            *)
(* get_stock_data and StockPredictionCRUD.save_prediction.                 *)
(*                                                                         *)
(* Floating point values are modelled as exact rationals <<n, d>> in       *)
(* lowest terms with d > 0, extended by the IEEE specials                  *)
(* NaN = <<0, 0>>, +Inf = <<1, 0>> and -Inf = <<-1, 0>>.                   *)
(***************************************************************************)
EXTENDS Integers, Sequences, FiniteSets, TLC

(***************************************************************************)
(* Bounds of the model.  The source uses 252 trading days per year, a      *)
(* look-back window of 60 closes and a volatility tail of 252 closes; the  *)
(* model keeps their roles and scales them down.                           *)
(***************************************************************************)
trading_days_per_year == 2
lookback_period == 2
VolTail == 3
MaxYears == 2
MaxHist == 3
MaxClose == 2

Calls == {1, 2}
Years == (0 - 1) .. MaxYears
UserIds == {"", "u1"}

(***************************************************************************)
(* Rational arithmetic with NaN and infinities (numpy float64 semantics    *)
(* without rounding).                                                      *)
(***************************************************************************)
Abs(x) == IF x < 0 THEN 0 - x ELSE x

RECURSIVE GCD(_, _)
GCD(a, b) == IF b = 0 THEN Abs(a) ELSE GCD(b, a % b)

NaN == <<0, 0>>
PosInf == <<1, 0>>
NegInf == <<0 - 1, 0>>

Sgn(x) == IF x > 0 THEN 1 ELSE IF x < 0 THEN 0 - 1 ELSE 0

Norm(n, d) ==
    IF d = 0 THEN <<Sgn(n), 0>>
    ELSE LET g == GCD(Abs(n), Abs(d))
             s == IF d < 0 THEN 0 - 1 ELSE 1
         IN  <<s * (n \div g), s * (d \div g)>>

R(n) == <<n, 1>>
Q(n, d) == Norm(n, d)

IsNaN(x) == x[1] = 0 /\ x[2] = 0
IsInf(x) == x[1] # 0 /\ x[2] = 0
IsFinite(x) == x[2] # 0

RNeg(x) == <<0 - x[1], x[2]>>

RAdd(x, y) ==
    IF IsNaN(x) \/ IsNaN(y) THEN NaN
    ELSE IF IsInf(x) /\ IsInf(y) THEN (IF x[1] = y[1] THEN x ELSE NaN)
    ELSE IF IsInf(x) THEN x
    ELSE IF IsInf(y) THEN y
    ELSE LET g == GCD(x[2], y[2])
             l == (x[2] \div g) * y[2]
         IN  Norm(x[1] * (l \div x[2]) + y[1] * (l \div y[2]), l)

RSub(x, y) == RAdd(x, RNeg(y))

RMul(x, y) ==
    IF IsNaN(x) \/ IsNaN(y) THEN NaN
    ELSE IF IsInf(x) \/ IsInf(y)
         THEN (IF x[1] = 0 \/ y[1] = 0 THEN NaN ELSE <<Sgn(x[1]) * Sgn(y[1]), 0>>)
    ELSE LET g1 == GCD(Abs(x[1]), y[2])
             g2 == GCD(Abs(y[1]), x[2])
         IN  Norm((x[1] \div g1) * (y[1] \div g2), (x[2] \div g2) * (y[2] \div g1))

RInv(x) ==
    IF IsNaN(x) THEN NaN
    ELSE IF IsInf(x) THEN R(0)
    ELSE IF x[1] = 0 THEN PosInf
    ELSE IF x[1] > 0 THEN <<x[2], x[1]>>
    ELSE <<0 - x[2], 0 - x[1]>>

RDiv(x, y) == RMul(x, RInv(y))

\* x < y as Python and numpy compare floats: FALSE when either is NaN
RLt(x, y) ==
    IF IsNaN(x) \/ IsNaN(y) THEN FALSE
    ELSE IF IsInf(x) /\ IsInf(y) THEN x[1] < y[1]
    ELSE IF IsInf(x) THEN x[1] < 0
    ELSE IF IsInf(y) THEN y[1] > 0
    ELSE LET g == GCD(x[2], y[2])
         IN  x[1] * (y[2] \div g) < y[1] * (x[2] \div g)

REq(x, y) == ~IsNaN(x) /\ ~IsNaN(y) /\ x = y
RLe(x, y) == RLt(x, y) \/ REq(x, y)
RAbs(x) == <<Abs(x[1]), x[2]>>

\* np.maximum / np.minimum: NaN propagates
NpMaximum(x, y) == IF IsNaN(x) \/ IsNaN(y) THEN NaN ELSE IF RLt(x, y) THEN y ELSE x
NpMinimum(x, y) == IF IsNaN(x) \/ IsNaN(y) THEN NaN ELSE IF RLt(y, x) THEN y ELSE x

\* np.clip(x, lo, hi) = minimum(maximum(x, lo), hi)
NpClip(x, lo, hi) == NpMinimum(NpMaximum(x, lo), hi)

\* Python builtin max(x, y): y only when y > x
PyMax(x, y) == IF RLt(x, y) THEN y ELSE x

\* s[-n:] of Python / numpy
Tail_(s, n) == IF Len(s) <= n THEN s ELSE SubSeq(s, Len(s) - n + 1, Len(s))

\* np.diff
NpDiff(s) == [k \in 1 .. (IF Len(s) = 0 THEN 0 ELSE Len(s) - 1) |-> RSub(s[k + 1], s[k])]


(***************************************************************************)
(* np.std.  A standard deviation is a square root and not rational; it is  *)
(* kept as NaN (empty array, or an element that is not finite), 0 (all     *)
(* elements equal) or one positive unit.                                   *)
(***************************************************************************)
NpStd(s) ==
    IF Len(s) = 0 \/ \E k \in 1 .. Len(s) : ~IsFinite(s[k]) THEN NaN
    ELSE IF \A k \in 1 .. Len(s) : s[k] = s[1] THEN R(0)
    ELSE R(1)

RECURSIVE CumProd(_)
CumProd(s) ==
    IF Len(s) <= 1 THEN s
    ELSE LET h == CumProd(SubSeq(s, 1, Len(s) - 1))
         IN  Append(h, RMul(h[Len(h)], s[Len(s)]))

RECURSIVE MaxAccumulate(_)
MaxAccumulate(s) ==
    IF Len(s) <= 1 THEN s
    ELSE LET h == MaxAccumulate(SubSeq(s, 1, Len(s) - 1))
         IN  Append(h, NpMaximum(h[Len(h)], s[Len(s)]))

RECURSIVE MinAccumulate(_)
MinAccumulate(s) ==
    IF Len(s) <= 1 THEN s
    ELSE LET h == MinAccumulate(SubSeq(s, 1, Len(s) - 1))
         IN  Append(h, NpMinimum(h[Len(h)], s[Len(s)]))

\* np.min of a non-empty array
RECURSIVE NpMin(_)
NpMin(s) == IF Len(s) = 1 THEN s[1] ELSE NpMinimum(s[1], NpMin(Tail(s)))

(***************************************************************************)
(* MinMaxScaler(feature_range = (0, 1)) fitted by prepare_data on every    *)
(* close of the fetched history.  A zero data range is replaced by 1.      *)
(***************************************************************************)
RECURSIVE SeqLeast(_)
SeqLeast(s) == IF Len(s) = 1 THEN s[1] ELSE NpMinimum(s[1], SeqLeast(Tail(s)))

RECURSIVE SeqGreatest(_)
SeqGreatest(s) == IF Len(s) = 1 THEN s[1] ELSE NpMaximum(s[1], SeqGreatest(Tail(s)))

prepare_data(closes) ==
    LET lo == SeqLeast(closes)
        hi == SeqGreatest(closes)
        range == IF RSub(hi, lo) = R(0) THEN R(1) ELSE RSub(hi, lo)
        scale == RInv(range)
    IN  [scale_ |-> scale, min_ |-> RSub(R(0), RMul(lo, scale))]

NoScaler == [scale_ |-> R(0), min_ |-> R(0)]

\* scaler.transform: X * scale_ + min_
Transform(sc, x) == RAdd(RMul(x, sc.scale_), sc.min_)

\* scaler.inverse_transform: (X - min_) / scale_
InverseTransform(sc, y) == RDiv(RSub(y, sc.min_), sc.scale_)

TransformAll(sc, xs) == [k \in 1 .. Len(xs) |-> Transform(sc, xs[k])]

(***************************************************************************)
(* The one-step predictor.  stock_model is loaded once at import; the      *)
(* model file is a black box, so the model ranges over a family of         *)
(* deterministic functions of the input window.                            *)
(***************************************************************************)
Affine(a, b) == [kind |-> "affine", a |-> a, b |-> b]
StockModels ==
    { Affine(R(0), R(0 - 2)), Affine(R(0), R(0 - 1)), Affine(R(0), R(1)),
      Affine(R(1), R(0)), Affine(Q(3, 2), Q(1, 2)), Affine(Q(1, 2), Q(0 - 1, 2)),
      [kind |-> "nan", a |-> R(0), b |-> R(0)],
      [kind |-> "inf", a |-> R(0), b |-> R(0)],
      [kind |-> "nan_after", a |-> R(0), b |-> R(3)] }
NoModel == [kind |-> "None", a |-> R(0), b |-> R(0)]

\* model.predict(input_sequence): one normalized value
Predict(m, w) ==
    LET last == w[Len(w)]
    IN  CASE m.kind = "affine" -> RAdd(RMul(m.a, last), m.b)
          [] m.kind = "nan" -> NaN
          [] m.kind = "inf" -> PosInf
          [] m.kind = "nan_after" -> IF last = m.b THEN NaN ELSE m.b
          [] OTHER -> NaN

(***************************************************************************)
(* np.random: the process-wide generator.  Its state is a position in a    *)
(* fixed stream of standard draws; np.random.normal(0, s) scales the draw  *)
(* at the position by s and advances the position.                         *)
(***************************************************************************)
ShockStream == <<Q(1, 10), Q(0 - 3, 2), Q(1, 2), R(0)>>
RandomNormal(state, s) == RMul(s, ShockStream[state + 1])
RandomAdvance(state) == (state + 1) % Len(ShockStream)
\* the positions the generator of a fresh process may be at
SeedPositions == {0, 1}

(***************************************************************************)
(* np.std(np.diff(np.log(closes[-252:]))).  Logarithms are not rational:   *)
(* the deviation is kept as NaN (no return at all), 0 (all log returns     *)
(* equal, i.e. all price ratios equal) or one positive unit.               *)
(***************************************************************************)
HistoricalVolatility(closes) ==
    LET tail == Tail_(closes, VolTail)
        ratio == [k \in 1 .. Len(tail) - 1 |-> RDiv(tail[k + 1], tail[k])]
    IN  IF Len(tail) < 2 THEN NaN
        ELSE IF \A k \in 1 .. Len(ratio) : ratio[k] = ratio[1] THEN R(0)
        ELSE R(1)

(***************************************************************************)
(* Dates are day numbers; day d is a weekday iff d % 7 < 5.                *)
(***************************************************************************)
IsBusinessDay(d) == d % 7 < 5

RECURSIVE NextBusinessDay(_)
NextBusinessDay(d) == IF IsBusinessDay(d) THEN d ELSE NextBusinessDay(d + 1)

RECURSIVE PrevBusinessDay(_)
PrevBusinessDay(d) == IF IsBusinessDay(d) THEN d ELSE PrevBusinessDay(d - 1)

\* pd.bdate_range(start = start, periods = n)
RECURSIVE bdate_range(_, _)
bdate_range(start, n) ==
    IF n <= 0 THEN <<>>
    ELSE <<NextBusinessDay(start)>> \o bdate_range(NextBusinessDay(start) + 1, n - 1)

\* stock_data.index: the n trading days that end at last
RECURSIVE HistoryIndex(_, _)
HistoryIndex(last, n) ==
    IF n <= 0 THEN <<>>
    ELSE Append(HistoryIndex(PrevBusinessDay(last - 1), n - 1), last)

\* A variant of FutureDates that starts at the last historical date.
FutureDates_FromLast(last, n) == bdate_range(last, n)

\* future_dates of line 291: business days from the day after the last
\* historical date
FutureDates(last, n) == bdate_range(last + 1, n)

\* A variant of total_days_of that is off by one day.
total_days_of_OffByOne(years) == years * trading_days_per_year + 1

\* total_days = years * trading_days_per_year (line 288)
total_days_of(years) == years * trading_days_per_year

(***************************************************************************)
(* Lines 306-314: shock, 20 % clamp and 50 % floor of one day.             *)
(***************************************************************************)
\* A variant of AdjustPrediction that also clamps and floors the first day.
AdjustPrediction_EveryDay(i, raw, shock, prev_price) ==
    LET adjusted == RAdd(raw, RMul(raw, shock))
        max_change == RMul(prev_price, Q(1, 5))
        clipped == NpClip(adjusted, RSub(prev_price, max_change),
                          RAdd(prev_price, max_change))
    IN  PyMax(clipped, RMul(prev_price, Q(1, 2)))

\* A variant of AdjustPrediction with a 25 % clamp.
AdjustPrediction_WideClamp(i, raw, shock, prev_price) ==
    IF i > 0
    THEN LET adjusted == RAdd(raw, RMul(raw, shock))
             max_change == RMul(prev_price, Q(1, 4))
             clipped == NpClip(adjusted, RSub(prev_price, max_change),
                               RAdd(prev_price, max_change))
         IN  PyMax(clipped, RMul(prev_price, Q(1, 2)))
    ELSE raw

AdjustPrediction(i, raw, shock, prev_price) ==
    IF i > 0
    THEN LET adjusted == RAdd(raw, RMul(raw, shock))
             max_change == RMul(prev_price, Q(1, 5))
             clipped == NpClip(adjusted, RSub(prev_price, max_change),
                               RAdd(prev_price, max_change))
         IN  PyMax(clipped, RMul(prev_price, Q(1, 2)))
    ELSE raw

(***************************************************************************)
(* State.                                                                  *)
(*   Process-wide: stock_model, np_random, the stock_predictions table,    *)
(*   and the market data the history provider serves (stock_data,          *)
(*   last_date).                                                           *)
(*   Per forecast call c: the request, the position pc, the locals of      *)
(*   predict_stock and predict_future_years_realistic, the returned        *)
(*   result and the raised error.  assigned[c] is the set of simulation    *)
(*   locals bound so far; oracle_queries, shocks_drawn and raw_log count   *)
(*   and record the calls of model.predict and np.random.normal.           *)
(*   window_buffer[c] is the fixed-length drop-oldest window of the        *)
(*   design, kept next to the growing current_sequence of the code;        *)
(*   snapshot[c] pairs the input of the last oracle query with the content *)
(*   of window_buffer at that query.  cancel_requested[c] is the day step  *)
(*   during which the client of call c asked to cancel, NotRequested until *)
(*   then.  user_profiles is the table of that name, rows in insertion     *)
(*   order; last_call is the latest UserProfileCRUD call and what it       *)
(*   raised.  in_flight[r] is the POST /api/profiles request r of the      *)
(*   interleaved creations: where it is, its data and its status.          *)
(***************************************************************************)
VARIABLES stock_model, stock_data, last_date, np_random, stock_predictions,
          pc, request, assigned, scaler, current_sequence, future_dates,
          predictions, daily_volatility, i, oracle_queries, shocks_drawn,
          raw_log, result, returned, error, window_buffer, snapshot,
          cancel_requested, user_profiles, last_call, in_flight

vars == <<stock_model, stock_data, last_date, np_random, stock_predictions,
          pc, request, assigned, scaler, current_sequence, future_dates,
          predictions, daily_volatility, i, oracle_queries, shocks_drawn,
          raw_log, result, returned, error, window_buffer, snapshot,
          cancel_requested, user_profiles, last_call, in_flight>>

profiles == <<user_profiles, last_call, in_flight>>

market == <<stock_model, stock_data, last_date>>

Closes == {R(k) : k \in 1 .. MaxClose}
Histories == UNION {[1 .. n -> Closes] : n \in 0 .. MaxHist}
LastDates == {1}

NoRequest == [symbol |-> "", years |-> 0, user_id |-> ""]
NoError == [status_code |-> 0, detail |-> ""]
NoStats == [current_price |-> NaN, final_price |-> NaN, total_return |-> NaN,
            annualized_base |-> NaN, volatility_std |-> NaN, max_drawdown |-> NaN]
NoResult == [historical_dates |-> <<>>, historical_prices |-> <<>>,
             future_dates |-> <<>>, future_predictions |-> <<>>,
             uncertainty_upper |-> <<>>, uncertainty_lower |-> <<>>,
             stats |-> NoStats]

Terminal == {"Completed", "Failed"}
NoSnapshot == [input |-> <<>>, buffer |-> <<>>]
NotRequested == 0 - 1
\* POST /api/profiles requests that server processes on one database handle
\* at the same time
Requests == {1, 2}
NotSent == [at |-> "idle", user_id |-> "", email |-> "", age |-> "", status_code |-> 0]
NoCall ==
    [op |-> "", user_id |-> "", email |-> "", fields_set |-> {}, raised |-> "",
     returned |-> "", status_code |-> 0]

\* WindowBuffer.push: append and drop the oldest
Push(buffer, x) == IF buffer = <<>> THEN <<>> ELSE Append(Tail(buffer), x)

\* A variant of InputSequence that takes the first lookback_period values.
InputSequence_Head(seq) ==
    IF Len(seq) <= lookback_period THEN seq ELSE SubSeq(seq, 1, lookback_period)

\* current_sequence[-lookback_period:] of line 301
InputSequence(seq) == Tail_(seq, lookback_period)

Init ==
    /\ stock_model \in StockModels \cup {NoModel}
    /\ stock_data \in Histories
    /\ last_date \in LastDates
    /\ np_random \in SeedPositions
    /\ stock_predictions = <<>>
    /\ pc = [c \in Calls |-> "idle"]
    /\ request = [c \in Calls |-> NoRequest]
    /\ assigned = [c \in Calls |-> {}]
    /\ scaler = [c \in Calls |-> NoScaler]
    /\ current_sequence = [c \in Calls |-> <<>>]
    /\ future_dates = [c \in Calls |-> <<>>]
    /\ predictions = [c \in Calls |-> <<>>]
    /\ daily_volatility = [c \in Calls |-> NaN]
    /\ i = [c \in Calls |-> 0]
    /\ oracle_queries = [c \in Calls |-> 0]
    /\ shocks_drawn = [c \in Calls |-> 0]
    /\ raw_log = [c \in Calls |-> <<>>]
    /\ result = [c \in Calls |-> NoResult]
    /\ returned = [c \in Calls |-> FALSE]
    /\ error = [c \in Calls |-> NoError]
    /\ window_buffer = [c \in Calls |-> <<>>]
    /\ snapshot = [c \in Calls |-> NoSnapshot]
    /\ cancel_requested = [c \in Calls |-> NotRequested]
    /\ user_profiles = <<>>
    /\ last_call = NoCall
    /\ in_flight = [r \in Requests |-> NotSent]

\* except Exception as e: raise HTTPException(status_code=500, detail=str(e))
WrapException(e) == [status_code |-> 500, detail |-> e]

\* A variant of Raise that swallows the exception and goes on to the response.
Raise_Swallow(c, e) ==
    /\ pc' = [pc EXCEPT ![c] = "Assembled"]
    /\ error' = [error EXCEPT ![c] = e]

\* An exception leaves the handler: the call ends with the error response e.
Raise(c, e) ==
    /\ pc' = [pc EXCEPT ![c] = "Failed"]
    /\ error' = [error EXCEPT ![c] = e]

\* POST /predict-stock arrives.  PredictionRequest accepts any int for
\* years.  The handler is an async function without await, so the event
\* loop runs one call at a time; calls are numbered in arrival order.
Receive(c, years, user_id) ==
    /\ pc[c] = "idle"
    /\ \A d \in Calls : d < c => pc[d] \in Terminal
    /\ pc' = [pc EXCEPT ![c] = "Initialized"]
    /\ request' = [request EXCEPT ![c] =
                     [symbol |-> "SYM", years |-> years, user_id |-> user_id]]
    /\ UNCHANGED <<market, np_random, stock_predictions, assigned, scaler,
                   current_sequence, future_dates, predictions, daily_volatility,
                   i, oracle_queries, shocks_drawn, raw_log, result, returned, error,
                   window_buffer, snapshot, cancel_requested,
                   profiles>>

\* predict_stock lines 325-345 and predict_future_years_realistic lines
\* 284-298: everything before the day loop.
Initialize(c, fetch_ok) ==
    /\ pc[c] = "Initialized"
    /\ LET years == request[c].years
           sc == prepare_data(stock_data)
           window == TransformAll(sc, Tail_(stock_data, lookback_period))
           fail(e) == Raise(c, e)
       IN  IF stock_model = NoModel
           THEN /\ fail([status_code |-> 500, detail |-> "Stock prediction model not loaded"])
                /\ UNCHANGED <<assigned, scaler, current_sequence, future_dates,
                               daily_volatility, window_buffer>>
           ELSE IF ~fetch_ok
           THEN /\ fail(WrapException("400: Error fetching data"))
                /\ UNCHANGED <<assigned, scaler, current_sequence, future_dates,
                               daily_volatility, window_buffer>>
           ELSE IF stock_data = <<>>
           THEN /\ fail(WrapException("404: No data found for the given symbol"))
                /\ UNCHANGED <<assigned, scaler, current_sequence, future_dates,
                               daily_volatility, window_buffer>>
           ELSE IF total_days_of(years) < 0
           THEN \* pd.bdate_range rejects a negative number of periods
                /\ fail(WrapException("ValueError: periods must be non-negative"))
                /\ scaler' = [scaler EXCEPT ![c] = sc]
                /\ current_sequence' = [current_sequence EXCEPT ![c] = window]
                /\ window_buffer' = [window_buffer EXCEPT ![c] = window]
                /\ assigned' = [assigned EXCEPT ![c] = {"scaler", "window"}]
                /\ UNCHANGED <<future_dates, daily_volatility>>
           ELSE /\ pc' = [pc EXCEPT ![c] = "Simulating"]
                /\ scaler' = [scaler EXCEPT ![c] = sc]
                /\ current_sequence' = [current_sequence EXCEPT ![c] = window]
                /\ window_buffer' = [window_buffer EXCEPT ![c] = window]
                /\ future_dates' = [future_dates EXCEPT ![c] =
                                      FutureDates(last_date, total_days_of(years))]
                /\ daily_volatility' = [daily_volatility EXCEPT ![c] =
                                          HistoricalVolatility(stock_data)]
                /\ assigned' = [assigned EXCEPT ![c] =
                                  {"scaler", "window", "path", "sigma"}]
                /\ UNCHANGED error
    /\ UNCHANGED <<market, np_random, stock_predictions, request, predictions, i,
                   oracle_queries, shocks_drawn, raw_log, result, returned, snapshot,
                   cancel_requested, profiles>>

\* A loop test that lets the body run once more.
DayLoopDone_Late(c) == i[c] > total_days_of(request[c].years)

\* for i in range(total_days), line 300: the loop has run out
DayLoopDone(c) == i[c] >= total_days_of(request[c].years)

\* One iteration of the day loop, lines 300-318.
Step(c, oracle_ok) ==
    /\ pc[c] = "Simulating"
    /\ ~DayLoopDone(c)
    /\ LET input_sequence == InputSequence(current_sequence[c])
           fail(e) == /\ Raise(c, WrapException(e))
                      /\ UNCHANGED <<np_random, current_sequence, predictions, i,
                                     shocks_drawn, raw_log, window_buffer>>
       IN  IF Len(input_sequence) # lookback_period
           THEN \* reshape(1, lookback_period, 1) of a shorter array
                /\ fail("ValueError: cannot reshape array")
                /\ UNCHANGED <<oracle_queries, snapshot>>
           ELSE /\ oracle_queries' = [oracle_queries EXCEPT ![c] = @ + 1]
                /\ snapshot' = [snapshot EXCEPT ![c] =
                                  [input |-> input_sequence, buffer |-> window_buffer[c]]]
                /\ IF ~oracle_ok
                   THEN fail("InferenceError")
                   ELSE LET next_pred_scaled == Predict(stock_model, input_sequence)
                        IN  IF IsInf(next_pred_scaled)
                            THEN \* inverse_transform rejects an infinite input
                                 fail("ValueError: Input contains infinity")
                            ELSE LET raw == InverseTransform(scaler[c], next_pred_scaled)
                                     draws == i[c] > 0
                                     shock == IF draws
                                              THEN RandomNormal(np_random, daily_volatility[c])
                                              ELSE R(0)
                                     prev_price == IF predictions[c] # <<>>
                                                   THEN predictions[c][Len(predictions[c])]
                                                   ELSE stock_data[Len(stock_data)]
                                     next_pred == AdjustPrediction(i[c], raw, shock, prev_price)
                                 IN  /\ np_random' = IF draws THEN RandomAdvance(np_random)
                                                     ELSE np_random
                                     /\ shocks_drawn' = [shocks_drawn EXCEPT ![c] =
                                                           IF draws THEN @ + 1 ELSE @]
                                     /\ raw_log' = [raw_log EXCEPT ![c] = Append(@, raw)]
                                     /\ predictions' = [predictions EXCEPT ![c] =
                                                          Append(@, next_pred)]
                                     /\ current_sequence' =
                                          [current_sequence EXCEPT ![c] =
                                             Append(@, Transform(scaler[c], next_pred))]
                                     /\ window_buffer' =
                                          [window_buffer EXCEPT ![c] =
                                             Push(@, Transform(scaler[c], next_pred))]
                                     /\ i' = [i EXCEPT ![c] = @ + 1]
                                     /\ UNCHANGED <<pc, error>>
    /\ UNCHANGED <<market, stock_predictions, request, assigned, scaler, future_dates,
                   daily_volatility, result, returned, cancel_requested,
                   profiles>>

(***************************************************************************)
(* Lines 356-372: bands and statistics of the finished path.  Square roots *)
(* are not rational: the band std * sqrt(k) of index k is kept as the pair  *)
(* of std and k, a band value price +/- std * sqrt(k) as price, sign and    *)
(* width, the annualized return as the base final/current of its           *)
(* power, and the volatility as the standard deviation of the returns      *)
(* before it is scaled by sqrt(252) * 100.                                 *)
(***************************************************************************)
HistoricalCutoffDays == 3

PredictionStd(p) == NpStd(NpDiff(p))

\* prediction_std of line 357: std * sqrt(k) for the 0-based index k, NaN
\* when std is NaN, 0 when std or k is 0
BandWidth(std, k) == [std |-> std, sqrt_of |-> k, zero |-> std = R(0) \/ (k = 0 /\ ~IsNaN(std))]

\* future_predictions + sign * prediction_std (lines 358-359)
UncertaintyBand(p, sign) ==
    [k \in 1 .. Len(p) |->
        [price |-> p[k], sign |-> sign, width |-> BandWidth(PredictionStd(p), k - 1)]]

DailyReturns(p) == [k \in 1 .. Len(p) - 1 |-> RDiv(RSub(p[k + 1], p[k]), p[k])]

CumulativeReturns(p) ==
    CumProd([k \in 1 .. Len(p) - 1 |-> RAdd(R(1), DailyReturns(p)[k])])

\* A variant of MaxDrawdown whose running peak starts at the first price.
MaxDrawdown_FromFirstDay(p) ==
    LET cum == <<R(1)>> \o CumulativeReturns(p)
        peak == MaxAccumulate(cum)
        ratio == [k \in 1 .. Len(cum) |-> RDiv(cum[k], peak[k])]
        low == MinAccumulate(ratio)
    IN  RMul(NpMin([k \in 1 .. Len(low) |-> RSub(low[k], R(1))]), R(100))

MaxDrawdown(p) ==
    LET cum == CumulativeReturns(p)
        peak == MaxAccumulate(cum)
        ratio == [k \in 1 .. Len(cum) |-> RDiv(cum[k], peak[k])]
        low == MinAccumulate(ratio)
    IN  RMul(NpMin([k \in 1 .. Len(low) |-> RSub(low[k], R(1))]), R(100))

\* A variant of Statistics whose total return is not taken relative to current_price.
Statistics_NoBase(p, current_price) ==
    LET final_price == p[Len(p)]
    IN  [current_price |-> current_price,
         final_price |-> final_price,
         total_return |-> RMul(RDiv(final_price, current_price), R(100)),
         annualized_base |-> RDiv(final_price, current_price),
         volatility_std |-> NpStd(DailyReturns(p)),
         max_drawdown |-> MaxDrawdown(p)]

Statistics(p, current_price) ==
    LET final_price == p[Len(p)]
    IN  [current_price |-> current_price,
         final_price |-> final_price,
         total_return |-> RMul(RDiv(RSub(final_price, current_price), current_price), R(100)),
         annualized_base |-> RDiv(final_price, current_price),
         volatility_std |-> NpStd(DailyReturns(p)),
         max_drawdown |-> MaxDrawdown(p)]

\* rows of the history not older than the chart cut-off (lines 347-354)
HistoricalMask(dates) ==
    {k \in 1 .. Len(dates) : dates[k] >= last_date + 1 - HistoricalCutoffDays}

RECURSIVE Masked(_, _, _)
Masked(s, mask, k) ==
    IF k > Len(s) THEN <<>>
    ELSE (IF k \in mask THEN <<s[k]>> ELSE <<>>) \o Masked(s, mask, k + 1)

\* The loop has ended: predict_future_years_realistic returns and
\* predict_stock builds prediction_result (lines 320, 347-389).
Assemble(c) ==
    /\ pc[c] = "Simulating"
    /\ DayLoopDone(c)
    /\ LET p == predictions[c]
           dates == HistoryIndex(last_date, Len(stock_data))
           mask == HistoricalMask(dates)
       IN  IF p = <<>>
           THEN \* future_predictions[-1] of an empty array
                /\ Raise(c, WrapException("IndexError"))
                /\ UNCHANGED result
           ELSE IF Len(p) = 1
           THEN \* np.min of an empty array
                /\ Raise(c, WrapException("ValueError: zero-size array"))
                /\ UNCHANGED result
           ELSE /\ pc' = [pc EXCEPT ![c] = "Assembled"]
                /\ result' = [result EXCEPT ![c] =
                     [historical_dates |-> Masked(dates, mask, 1),
                      historical_prices |-> Masked(stock_data, mask, 1),
                      future_dates |-> future_dates[c],
                      future_predictions |-> p,
                      uncertainty_upper |-> UncertaintyBand(p, 1),
                      uncertainty_lower |-> UncertaintyBand(p, 0 - 1),
                      stats |-> Statistics(p, stock_data[Len(stock_data)])]]
                /\ UNCHANGED error
    /\ UNCHANGED <<market, np_random, stock_predictions, request, assigned, scaler,
                   current_sequence, future_dates, predictions, daily_volatility, i,
                   oracle_queries, shocks_drawn, raw_log, returned, window_buffer,
                   snapshot, cancel_requested,
                   profiles>>

\* StockPredictionCRUD.save_prediction: one row of stock_predictions
save_prediction(user_id, symbol, prediction_years, prediction_data) ==
    [user_id |-> user_id, symbol |-> symbol, prediction_years |-> prediction_years,
     current_price |-> prediction_data.stats.current_price,
     predicted_price |-> prediction_data.stats.final_price,
     total_return |-> prediction_data.stats.total_return,
     max_drawdown |-> prediction_data.stats.max_drawdown,
     model_version |-> "v1.0"]

\* A variant of ShouldSave that saves for every request.
ShouldSave_Always(user_id) == TRUE

\* if user_id: (line 392); "" stands for a request without user_id
ShouldSave(user_id) == user_id # ""

\* Lines 391-405: optional save, then the result is returned.
Respond(c, save_ok) ==
    /\ pc[c] = "Assembled"
    /\ stock_predictions' =
         IF ShouldSave(request[c].user_id) /\ save_ok
         THEN Append(stock_predictions,
                     save_prediction(request[c].user_id, request[c].symbol,
                                     request[c].years, result[c]))
         ELSE stock_predictions
    /\ returned' = [returned EXCEPT ![c] = TRUE]
    /\ pc' = [pc EXCEPT ![c] = "Completed"]
    /\ UNCHANGED <<market, np_random, request, assigned, scaler, current_sequence,
                   future_dates, predictions, daily_volatility, i, oracle_queries,
                   shocks_drawn, raw_log, result, error, window_buffer, snapshot,
                   cancel_requested, profiles>>

\* One forecast request.
Next ==
    \/ \E years \in Years, user_id \in UserIds : Receive(1, years, user_id)
    \/ \E c \in Calls, fetch_ok \in BOOLEAN : Initialize(c, fetch_ok)
    \/ \E c \in Calls, oracle_ok \in BOOLEAN : Step(c, oracle_ok)
    \/ \E c \in Calls : Assemble(c)
    \/ \E c \in Calls, save_ok \in BOOLEAN : Respond(c, save_ok)

Spec == Init /\ [][Next]_vars

\* One forecast request whose handler runs on: the handler is straight-line
\* code around a bounded for loop, and every call it makes (data fetch,
\* model.predict, save_prediction) returns or raises.
\* Control flow does not depend on the position of the random generator,
\* so the liveness specification fixes it.
LiveInit ==
    /\ Init
    /\ np_random = 0

\* The control part of Assemble: the loop has run out and the call leaves
\* Simulating.  Assemble is enabled exactly when this is, and its steps are
\* the steps of Next that satisfy it.
AssembleControl ==
    \E c \in Calls :
        /\ pc[c] = "Simulating"
        /\ DayLoopDone(c)
        /\ pc' \in {[pc EXCEPT ![c] = q] : q \in {"Assembled", "Failed"}}

LiveSpec ==
    /\ LiveInit
    /\ [][Next]_vars
    /\ WF_vars(\E c \in Calls, fetch_ok \in BOOLEAN : Initialize(c, fetch_ok))
    /\ WF_vars(\E c \in Calls, oracle_ok \in BOOLEAN : Step(c, oracle_ok))
    /\ WF_pc(AssembleControl)
    /\ WF_vars(\E c \in Calls, save_ok \in BOOLEAN : Respond(c, save_ok))

\* The client of call c disconnects, or its deadline passes, while the
\* day loop runs.  The request is only noted: the loop of lines 300-318
\* has no await and reads no cancellation flag, so nothing in the handler
\* looks at it.
Cancel(c) ==
    /\ pc[c] = "Simulating"
    /\ cancel_requested[c] = NotRequested
    /\ cancel_requested' = [cancel_requested EXCEPT ![c] = i[c]]
    /\ UNCHANGED <<market, np_random, stock_predictions, pc, request, assigned, scaler,
                   current_sequence, future_dates, predictions, daily_volatility, i,
                   oracle_queries, shocks_drawn, raw_log, result, returned, error,
                   window_buffer, snapshot, profiles>>

NextCancel ==
    \/ Next
    \/ \E c \in Calls : Cancel(c)

\* One forecast request that its client may cancel.
SpecCancel == LiveInit /\ [][NextCancel]_vars

(***************************************************************************)
(* UserProfileCRUD on the table user_profiles and the endpoints that call   *)
(* it.  A row keeps user_id, is_active and the twelve columns of            *)
(* ImportantFields; column values are strings, None is the Python None      *)
(* and the SQL NULL.                                                       *)
(***************************************************************************)
None == "None"
ProfileUserIds == {"u1", "u2"}
Emails == {"a@test.com", "b@test.com"}
Ages == {"30", "31"}

\* important_fields of get_profile_completeness
important_fields ==
    <<"first_name", "last_name", "email", "country", "age", "gender", "annual_income",
      "employment_status", "investment_experience", "risk_tolerance",
      "retirement_target_age", "current_fund_type">>

\* the columns a row keeps besides user_id and is_active
ImportantFields == {important_fields[k] : k \in 1 .. Len(important_fields)}

forecast ==
    <<market, np_random, stock_predictions, pc, request, assigned, scaler,
      current_sequence, future_dates, predictions, daily_volatility, i, oracle_queries,
      shocks_drawn, raw_log, result, returned, error, window_buffer, snapshot,
      cancel_requested>>

\* UserProfile: user_id and email are unique = True; NULL emails do not
\* collide
UniqueConstraints(table) ==
    \A j, k \in 1 .. Len(table) :
        j # k =>
            /\ table[j].user_id # table[k].user_id
            /\ table[j].email # None => table[j].email # table[k].email

\* db.query(UserProfile).filter(UserProfile.user_id == user_id).first()
ExistingUser(table, user_id) ==
    \E k \in 1 .. Len(table) : table[k].user_id = user_id

\* A variant of ExistingEmail that looks at active rows only.
ExistingEmail_ActiveOnly(table, email) ==
    \E k \in 1 .. Len(table) : table[k].email = email /\ table[k].is_active

\* db.query(UserProfile).filter(UserProfile.email == email).first()
ExistingEmail(table, email) ==
    \E k \in 1 .. Len(table) : table[k].email = email

\* the filter of update_profile: the email on a row of another user
ExistingEmailOfOther(table, email, user_id) ==
    \E k \in 1 .. Len(table) : table[k].email = email /\ table[k].user_id # user_id

\* A variant of ActiveRow that does not filter on is_active.
ActiveRow_AnyRow(table, user_id) ==
    IF \E k \in 1 .. Len(table) : table[k].user_id = user_id
    THEN CHOOSE k \in 1 .. Len(table) : table[k].user_id = user_id
    ELSE 0

\* get_profile_by_user_id: the index of the active row of user_id, 0 for None
ActiveRow(table, user_id) ==
    IF \E k \in 1 .. Len(table) : table[k].user_id = user_id /\ table[k].is_active
    THEN CHOOSE k \in 1 .. Len(table) :
             /\ table[k].user_id = user_id /\ table[k].is_active
             /\ \A j \in 1 .. k - 1 : ~(table[j].user_id = user_id /\ table[j].is_active)
    ELSE 0

get_profile_by_user_id(table, user_id) ==
    IF ActiveRow(table, user_id) = 0 THEN None ELSE table[ActiveRow(table, user_id)]

\* value is not None and value != ""
IsCompleted(value) == value # None /\ value # ""

\* Python truth of a string column
Truthy(value) == value # None /\ value # ""

\* A variant of PyMin that does not cap.
PyMin_First(x, y) == x

\* Python's min(x, y) of two numbers
PyMin(x, y) == IF RLt(y, x) THEN y ELSE x

\* get_profile_completeness; the recommendations are left out
get_profile_completeness(table, user_id) ==
    IF ActiveRow(table, user_id) = 0
    THEN [error |-> "Profile not found"]
    ELSE LET profile == get_profile_by_user_id(table, user_id)
             done(f) == IsCompleted(profile[f])
             missing(f) == ~IsCompleted(profile[f])
             completed_fields == SelectSeq(important_fields, done)
             missing_fields == SelectSeq(important_fields, missing)
             completeness_percentage ==
                 RMul(RDiv(R(Len(completed_fields)), R(Len(important_fields))), R(100))
             profile_score ==
                 IF Truthy(profile.investment_experience) /\ Truthy(profile.risk_tolerance)
                 THEN RAdd(completeness_percentage, R(10))
                 ELSE completeness_percentage
         IN  [completeness_percentage |-> completeness_percentage,
              missing_fields |-> missing_fields,
              completed_fields |-> completed_fields,
              profile_score |-> PyMin(profile_score, R(100))]

\* UserProfile(**profile_data.dict()): a field the request leaves out is None
NewRow(profile_data) ==
    [f \in ImportantFields \cup {"user_id", "is_active"} |->
        IF f = "is_active" THEN TRUE
        ELSE IF f \in DOMAIN profile_data THEN profile_data[f] ELSE None]

\* A variant of UpdateData that keeps the fields the request did not set.
UpdateData_All(profile_data) ==
    [f \in {"email", "age"} |->
        IF f \in profile_data.fields_set THEN profile_data[f] ELSE None]

\* profile_data.dict(exclude_unset = True)
UpdateData(profile_data) == [f \in profile_data.fields_set |-> profile_data[f]]

\* the setattr loop of update_profile
SetAttrs(row, update_data) ==
    [f \in DOMAIN row |-> IF f \in DOMAIN update_data THEN update_data[f] ELSE row[f]]

\* The status the endpoints answer with.  create_user_profile and
\* update_user_profile turn ValueError into 400 and every other exception
\* into 500, the HTTPException 404 that update_user_profile raises inside
\* its own try block among them; delete_user_profile has no try block.
create_user_profile(raised) ==
    IF raised = "" THEN 201 ELSE IF raised = "ValueError" THEN 400 ELSE 500

update_user_profile(raised, value) ==
    IF raised = "ValueError" THEN 400
    ELSE IF raised # "" THEN 500
    ELSE IF value = None THEN 500
    ELSE 200

delete_user_profile(raised, value) ==
    IF raised # "" THEN 500 ELSE IF value = "True" THEN 200 ELSE 404

\* the call, what the CRUD function raised or returned, and the status
Answer(op, user_id, email, fields_set, raised, value) ==
    [op |-> op, user_id |-> user_id, email |-> email, fields_set |-> fields_set,
     raised |-> raised, returned |-> value,
     status_code |-> IF op = "create_profile" THEN create_user_profile(raised)
                     ELSE IF op = "update_profile"
                     THEN update_user_profile(raised, value)
                     ELSE delete_user_profile(raised, value)]

\* db.commit(): the pending table is written unless a unique constraint
\* rejects it
Commit(op, user_id, email, fields_set, value, pending) ==
    IF UniqueConstraints(pending)
    THEN /\ user_profiles' = pending
         /\ last_call' = Answer(op, user_id, email, fields_set, "", value)
    ELSE /\ user_profiles' = user_profiles
         /\ last_call' = Answer(op, user_id, email, fields_set, "IntegrityError", "")

Returns(op, user_id, email, fields_set, raised, value) ==
    /\ user_profiles' = user_profiles
    /\ last_call' = Answer(op, user_id, email, fields_set, raised, value)

create_profile(profile_data) ==
    /\ LET u == profile_data.user_id
           e == profile_data.email
       IN  IF ExistingUser(user_profiles, u)
           THEN Returns("create_profile", u, e, {}, "ValueError", "")
           ELSE IF e # None /\ ExistingEmail(user_profiles, e)
           THEN Returns("create_profile", u, e, {}, "ValueError", "")
           ELSE Commit("create_profile", u, e, {}, "profile",
                       Append(user_profiles, NewRow(profile_data)))
    /\ UNCHANGED <<forecast, in_flight>>

\* profile_data.fields_set are the fields the request sets (exclude_unset);
\* a field that is not set reads as None
update_profile(user_id, profile_data) ==
    /\ LET k == ActiveRow(user_profiles, user_id)
           fs == profile_data.fields_set
           email == IF "email" \in fs THEN profile_data.email ELSE None
       IN  IF k = 0
           THEN Returns("update_profile", user_id, email, fs, "", None)
           ELSE IF /\ email # None
                   /\ email # user_profiles[k].email
                   /\ ExistingEmailOfOther(user_profiles, email, user_id)
           THEN Returns("update_profile", user_id, email, fs, "ValueError", "")
           ELSE Commit("update_profile", user_id, email, fs, "profile",
                       [user_profiles EXCEPT
                          ![k] = SetAttrs(@, UpdateData(profile_data))])
    /\ UNCHANGED <<forecast, in_flight>>

\* soft delete
delete_profile(user_id) ==
    /\ LET k == ActiveRow(user_profiles, user_id)
       IN  IF k = 0
           THEN Returns("delete_profile", user_id, None, {}, "", "False")
           ELSE Commit("delete_profile", user_id, None, {}, "True",
                       [user_profiles EXCEPT ![k] = [@ EXCEPT !.is_active = FALSE]])
    /\ UNCHANGED <<forecast, in_flight>>

ProfileCreates == [user_id : ProfileUserIds, email : Emails \cup {None}, age : Ages \cup {None}]
ProfileUpdates ==
    [fields_set : SUBSET {"email", "age"}, email : Emails \cup {None}, age : Ages \cup {None}]

\* GET /api/profiles/{user_id}/completeness
profile_completeness(user_id) ==
    /\ LET completeness_data == get_profile_completeness(user_profiles, user_id)
       IN  last_call' = [op |-> "get_profile_completeness", user_id |-> user_id,
                         email |-> None, fields_set |-> {}, raised |-> "",
                         returned |-> completeness_data,
                         status_code |-> IF "error" \in DOMAIN completeness_data
                                         THEN 404 ELSE 200]
    /\ UNCHANGED <<forecast, user_profiles, in_flight>>

\* Creation requests that set any number of the important fields: first_name
\* may be the empty string, and the first n of OtherFields are set.
OtherFields ==
    <<"last_name", "country", "gender", "annual_income", "employment_status",
      "retirement_target_age", "current_fund_type">>
FullProfile(first_name, email, age, investment_experience, risk_tolerance, n) ==
    [f \in ImportantFields \cup {"user_id"} |->
        CASE f = "user_id" -> "u1"
          [] f = "first_name" -> first_name
          [] f = "email" -> email
          [] f = "age" -> age
          [] f = "investment_experience" -> investment_experience
          [] f = "risk_tolerance" -> risk_tolerance
          [] OTHER -> IF \E k \in 1 .. n : OtherFields[k] = f THEN "x" ELSE None]
CompletenessCreates ==
    {FullProfile(first_name, email, age, investment_experience, risk_tolerance, n) :
        first_name \in {None, "", "Test"}, email \in {None, "a@test.com"},
        age \in {None, "30"}, investment_experience \in {None, "beginner"},
        risk_tolerance \in {None, "moderate"}, n \in 0 .. Len(OtherFields)}

\* create_profile in a server process of its own, lines 18-31: the two
\* existence checks.  Another process may commit before this one does.
CheckCreate(r, profile_data) ==
    /\ in_flight[r].at = "idle"
    /\ LET refused ==
               \/ ExistingUser(user_profiles, profile_data.user_id)
               \/ /\ profile_data.email # None
                  /\ ExistingEmail(user_profiles, profile_data.email)
       IN  in_flight' = [in_flight EXCEPT ![r] =
                           [at |-> IF refused THEN "answered" ELSE "checked",
                            user_id |-> profile_data.user_id,
                            email |-> profile_data.email,
                            age |-> profile_data.age,
                            status_code |-> IF refused
                                            THEN create_user_profile("ValueError")
                                            ELSE 0]]
    /\ UNCHANGED <<forecast, user_profiles, last_call>>

\* lines 33-37: db.add and db.commit; the unique constraints of the table
\* reject a second row with IntegrityError
CommitCreate(r) ==
    /\ in_flight[r].at = "checked"
    /\ LET pending ==
               Append(user_profiles,
                      NewRow([user_id |-> in_flight[r].user_id,
                              email |-> in_flight[r].email, age |-> in_flight[r].age]))
       IN  IF UniqueConstraints(pending)
           THEN /\ user_profiles' = pending
                /\ in_flight' = [in_flight EXCEPT ![r].at = "answered",
                                                  ![r].status_code = create_user_profile("")]
           ELSE /\ user_profiles' = user_profiles
                /\ in_flight' = [in_flight EXCEPT
                                   ![r].at = "answered",
                                   ![r].status_code = create_user_profile("IntegrityError")]
    /\ UNCHANGED <<forecast, last_call>>

\* The profile service alone: no forecast is requested.
InitProfiles ==
    /\ Init
    /\ stock_model = NoModel
    /\ stock_data = <<>>
    /\ np_random = 0

NextProfiles ==
    \/ \E profile_data \in ProfileCreates : create_profile(profile_data)
    \/ \E user_id \in ProfileUserIds, profile_data \in ProfileUpdates :
           update_profile(user_id, profile_data)
    \/ \E user_id \in ProfileUserIds : delete_profile(user_id)

SpecProfiles == InitProfiles /\ [][NextProfiles]_vars

NextCompleteness ==
    \/ \E profile_data \in CompletenessCreates : create_profile(profile_data)
    \/ delete_profile("u1")
    \/ \E user_id \in ProfileUserIds : profile_completeness(user_id)

\* One profile with any of its fields set, and its completeness.
SpecCompleteness == InitProfiles /\ [][NextCompleteness]_vars

NextRace ==
    \/ \E r \in Requests, profile_data \in ProfileCreates : CheckCreate(r, profile_data)
    \/ \E r \in Requests : CommitCreate(r)

\* Two creations in two server processes on one database.
SpecRace == InitProfiles /\ [][NextRace]_vars

\* Two forecast requests, one after the other, in a freshly started process,
\* on a history long enough for the window.
InitTwo ==
    /\ Init
    /\ Len(stock_data) = MaxHist
    /\ stock_model.kind = "affine"
    /\ np_random = 0

NextTwo ==
    \/ Next
    \/ \E years \in Years, user_id \in UserIds : Receive(2, years, user_id)

SpecTwo == InitTwo /\ [][NextTwo]_vars

TypeOK ==
    /\ pc \in [Calls -> {"idle", "Initialized", "Simulating", "Assembled",
                         "Completed", "Failed"}]
    /\ np_random \in 0 .. Len(ShockStream) - 1
    /\ \A c \in Calls : Len(predictions[c]) = i[c]

(***************************************************************************)
(* Properties.                                                             *)
(***************************************************************************)
Finished(c) == pc[c] \in {"Assembled", "Completed"}
LastClose == stock_data[Len(stock_data)]

\* C1: a request with years >= 1 that completes has exactly
\* years * trading_days_per_year future dates and predicted prices, and
\* future_dates, future_predictions, uncertainty_upper and uncertainty_lower
\* of the result all have that length.
C1_ResultLengths ==
    \A c \in Calls :
        (Finished(c) /\ request[c].years >= 1) =>
            LET n == request[c].years * trading_days_per_year
            IN  /\ Len(future_dates[c]) = n
                /\ Len(predictions[c]) = n
                /\ Len(result[c].future_dates) = n
                /\ Len(result[c].future_predictions) = n
                /\ Len(result[c].uncertainty_upper) = n
                /\ Len(result[c].uncertainty_lower) = n

C1_Witness ==
    \E c \in Calls : returned[c] /\ request[c].years = MaxYears

\* C2: the first simulated price is the inverse-transformed oracle output
\* of the first query, unchanged, and no shock has been drawn for it,
\* whatever the last historical price is.
C2_FirstPriceExact ==
    \A c \in Calls :
        Len(predictions[c]) >= 1 =>
            /\ predictions[c][1] =
                 InverseTransform(scaler[c],
                     Predict(stock_model,
                             TransformAll(scaler[c], Tail_(stock_data, lookback_period))))
            /\ predictions[c][1] = raw_log[c][1]
            /\ shocks_drawn[c] = Len(predictions[c]) - 1

\* the first price lies outside of both the clamp and the floor of the last close
C2_Witness ==
    \E c \in Calls :
        /\ Len(predictions[c]) >= 1
        /\ \/ RLt(RMul(LastClose, Q(6, 5)), predictions[c][1])
           \/ RLt(predictions[c][1], RMul(LastClose, Q(1, 2)))

\* C3: for every step after the first the recorded price moves by at most
\* 20 % of the previous price: |price[k] - price[k-1]| <= 0.2 * price[k-1].
C3_ClampInvariant ==
    \A c \in Calls : \A k \in 2 .. Len(predictions[c]) :
        RLe(RAbs(RSub(predictions[c][k], predictions[c][k - 1])),
            RMul(Q(1, 5), predictions[c][k - 1]))

\* C4: for every step after the first the recorded price is at least half
\* of the previous price.
C4_FloorInvariant ==
    \A c \in Calls : \A k \in 2 .. Len(predictions[c]) :
        RLe(RMul(Q(1, 2), predictions[c][k - 1]), predictions[c][k])

\* C5: two completed runs with the same oracle, scaler, history and
\* request produce the same future prices.
C5_Determinism ==
    (returned[1] /\ returned[2] /\ request[1].years = request[2].years) =>
        result[1].future_predictions = result[2].future_predictions

\* C6: max_drawdown of every assembled result is <= 0.
C6_DrawdownNonPositive ==
    \A c \in Calls : Finished(c) => RLe(result[c].stats.max_drawdown, R(0))

\* C7: a request with years <= 0 is rejected before any simulation state
\* (window, path, sigma) is created and before the oracle is queried.
C7_RejectedBeforeState ==
    \A c \in Calls :
        (pc[c] # "idle" /\ request[c].years <= 0) =>
            /\ assigned[c] = {}
            /\ oracle_queries[c] = 0
            /\ pc[c] \in {"Initialized", "Failed"}

\* C8: when the oracle call raises at step k the call ends in a single
\* terminal error: the failed query is the last one, no result (in
\* particular none holding the first k prices) is returned, and nothing
\* is saved to stock_predictions.
C8_OracleFailureIsTerminal ==
    \A c \in Calls :
        error[c].detail = "InferenceError" =>
            /\ pc[c] = "Failed"
            /\ error[c].status_code = 500
            /\ oracle_queries[c] = Len(predictions[c]) + 1
            /\ ~returned[c]
            /\ result[c] = NoResult
            /\ stock_predictions = <<>>

C8_Witness ==
    \E c \in Calls :
        /\ error[c].detail = "InferenceError"
        /\ Len(predictions[c]) >= 1
        /\ request[c].user_id # ""

\* C9: a NaN or infinite oracle output is never recorded as a day's price,
\* never pushed into the window, and no trajectory holding it is returned.
C9_InvalidOutputAborts ==
    \A c \in Calls :
        /\ \A k \in 1 .. Len(predictions[c]) : IsFinite(predictions[c][k])
        /\ \A k \in 1 .. Len(current_sequence[c]) : IsFinite(current_sequence[c][k])
        /\ \A k \in 1 .. Len(raw_log[c]) : ~IsFinite(raw_log[c][k]) => pc[c] = "Failed"

\* C10: with fewer than 2 closes in the volatility tail sigma is 0, and
\* the run is not in error because of it.
C10_DegradedSigmaIsZero ==
    \A c \in Calls :
        ("sigma" \in assigned[c] /\ Len(Tail_(stock_data, VolTail)) < 2) =>
            /\ daily_volatility[c] = R(0)
            /\ pc[c] # "Failed"

\* C11: when the history is empty or shorter than lookback_period the
\* forecast is aborted before the day loop starts: sigma is not estimated,
\* the oracle is never queried and no result is returned.
C11_ShortHistoryAbortsBeforeLoop ==
    \A c \in Calls :
        (pc[c] # "idle" /\ Len(stock_data) < lookback_period) =>
            /\ "sigma" \notin assigned[c]
            /\ pc[c] \in {"Initialized", "Failed"}
            /\ oracle_queries[c] = 0
            /\ ~returned[c]

\* every day's price is equal (as floats compare: a NaN equals nothing)
ConstantPath(p) == \A k \in 1 .. Len(p) : REq(p[k], p[1])

\* C12 (as stated): every constant simulated path has total_return = 0,
\* annualized_return = 0, volatility = 0 and max_drawdown = 0, whatever
\* current_price is.  Stated for the paths with a price > 0.
C12_ConstantPathAllZero ==
    \A c \in Calls :
        (Finished(c) /\ ConstantPath(predictions[c]) /\ RLt(R(0), predictions[c][1])) =>
            /\ result[c].stats.total_return = R(0)
            /\ result[c].stats.annualized_base = R(1)
            /\ result[c].stats.volatility_std = R(0)
            /\ result[c].stats.max_drawdown = R(0)

\* C12 (amended): every constant simulated path has volatility = 0 and
\* max_drawdown = 0 when its price is not 0 (both are NaN when it is 0);
\* total_return and annualized_return are 0 exactly when the constant
\* price equals current_price, the last close of the history.
C12_ConstantPathStatistics ==
    \A c \in Calls :
        (Finished(c) /\ ConstantPath(predictions[c])) =>
            /\ predictions[c][1] # R(0) =>
                   /\ result[c].stats.volatility_std = R(0)
                   /\ result[c].stats.max_drawdown = R(0)
            /\ predictions[c][1] = R(0) =>
                   /\ IsNaN(result[c].stats.volatility_std)
                   /\ IsNaN(result[c].stats.max_drawdown)
            /\ result[c].stats.current_price = LastClose
            /\ (result[c].stats.total_return = R(0)) <=> (predictions[c][1] = LastClose)
            /\ (result[c].stats.annualized_base = R(1)) <=> (predictions[c][1] = LastClose)

C12_Witness ==
    \E c \in Calls :
        /\ Finished(c)
        /\ ConstantPath(predictions[c])
        /\ predictions[c][1] = LastClose
        /\ Len(predictions[c]) >= 2 * trading_days_per_year

\* the price before simulated day k (1-based): the previous simulated
\* price, or the last close for the first day
PriceBefore(c, k) == IF k = 1 THEN LastClose ELSE predictions[c][k - 1]

\* the oracle has returned f times the previous price on each of the first k queries
RampRun(c, f, k) == \A j \in 1 .. k : raw_log[c][j] = RMul(f, PriceBefore(c, j))

SeqRange(s) == {s[k] : k \in 1 .. Len(s)}

\* C15: the historical and the future dates are disjoint and contiguous:
\* every future date is a weekday after the last historical date, the
\* future dates increase strictly, the first one is the first weekday on
\* or after the day after the last historical date, and no weekday lies
\* between two consecutive future dates.
C15_DatesDisjointContiguous ==
    \A c \in Calls :
        LET fd == future_dates[c]
        IN  /\ \A k \in 1 .. Len(fd) : IsBusinessDay(fd[k]) /\ fd[k] > last_date
            /\ \A k \in 1 .. Len(fd) - 1 :
                   /\ fd[k] < fd[k + 1]
                   /\ \A d \in fd[k] + 1 .. fd[k + 1] - 1 : ~IsBusinessDay(d)
            /\ Len(fd) >= 1 =>
                   /\ fd[1] >= last_date + 1
                   /\ \A d \in last_date + 1 .. fd[1] - 1 : ~IsBusinessDay(d)
            /\ Finished(c) =>
                   /\ result[c].future_dates = fd
                   /\ \A d \in SeqRange(result[c].historical_dates) : d <= last_date
                   /\ SeqRange(result[c].historical_dates) \cap SeqRange(fd) = {}

\* a finished call whose future dates skip a weekend, next to a non-empty
\* historical series
C15_Witness ==
    \E c \in Calls :
        /\ Finished(c)
        /\ result[c].historical_dates # <<>>
        /\ \E k \in 1 .. Len(future_dates[c]) - 1 :
               future_dates[c][k + 1] > future_dates[c][k] + 1

\* C16: the bands come from one spread s >= 0 computed from the finished
\* path: for every index k, upper[k] - price[k] = price[k] - lower[k] =
\* s * sqrt(k), so lower <= price <= upper, the width does not decrease
\* with k, and on the first future day upper = lower = price.
C16_BandsSymmetric ==
    \A c \in Calls :
        Finished(c) =>
            LET p == result[c].future_predictions
                up == result[c].uncertainty_upper
                lo == result[c].uncertainty_lower
                s == PredictionStd(predictions[c])
            IN  /\ RLe(R(0), s)
                /\ \A k \in 1 .. Len(p) :
                       /\ up[k].price = p[k] /\ lo[k].price = p[k]
                       /\ up[k].sign = 1 /\ lo[k].sign = 0 - 1
                       /\ up[k].width = lo[k].width
                       /\ up[k].width.std = s
                       /\ up[k].width.sqrt_of = k - 1
                /\ up[1].width.zero /\ lo[1].width.zero

\* C14: every oracle query gets exactly lookback_period values, and they
\* are the content of the drop-oldest buffer that started as the
\* normalized last lookback_period closes and received the normalized
\* form of every recorded price.
C14_WindowIsDropOldestBuffer ==
    \A c \in Calls :
        oracle_queries[c] > 0 =>
            /\ Len(snapshot[c].input) = lookback_period
            /\ snapshot[c].input = snapshot[c].buffer
            /\ Len(window_buffer[c]) = lookback_period
            /\ \A k \in 1 .. Len(predictions[c]) :
                   k > Len(predictions[c]) - lookback_period =>
                       window_buffer[c][lookback_period - (Len(predictions[c]) - k)]
                           = Transform(scaler[c], predictions[c][k])

\* a query made after more prices were pushed than the window holds
C14_Witness ==
    \E c \in Calls :
        /\ oracle_queries[c] > lookback_period + 1
        /\ Len(predictions[c]) = oracle_queries[c]
        /\ Len(current_sequence[c]) > lookback_period + 1

PyMaxInt(a, b) == IF b > a THEN b ELSE a

\* the moves of the state machine of one call
Transitions ==
    {<<"idle", "Initialized">>, <<"Initialized", "Simulating">>,
     <<"Simulating", "Simulating">>, <<"Simulating", "Assembled">>,
     <<"Assembled", "Completed">>, <<"Initialized", "Failed">>,
     <<"Simulating", "Failed">>, <<"Assembled", "Failed">>}

\* everything one call owns
CallState(c) ==
    <<pc[c], request[c], assigned[c], scaler[c], current_sequence[c], future_dates[c],
      predictions[c], daily_volatility[c], i[c], oracle_queries[c], shocks_drawn[c],
      raw_log[c], result[c], returned[c], error[c]>>

\* C17: a call moves Initialized -> Simulating -> Assembled -> Completed or
\* to Failed; once received it eventually is Completed or Failed (never
\* both: they are two values of one field), having queried the oracle at
\* most years * trading_days_per_year times (not at all when that is
\* negative); nothing of the call changes after Completed or Failed; and a
\* result is returned only in Completed.
C17_StateMachine ==
    /\ [][\A c \in Calls :
             /\ pc'[c] # pc[c] => <<pc[c], pc'[c]>> \in Transitions
             /\ pc[c] \in Terminal => CallState(c)' = CallState(c)]_vars
    /\ [](\A c \in Calls :
             /\ returned[c] => pc[c] = "Completed"
             /\ pc[c] # "idle" =>
                    /\ oracle_queries[c] >= 0
                    /\ oracle_queries[c] <= PyMaxInt(0, total_days_of(request[c].years)))
    /\ \A c \in Calls : (pc[c] = "Initialized") ~> (pc[c] \in Terminal)

\* a call that completed after a query on each simulated day, and is
\* stable there
C17_Witness ==
    \E c \in Calls :
        /\ pc[c] = "Completed"
        /\ returned[c]
        /\ request[c].years = MaxYears
        /\ oracle_queries[c] = total_days_of(request[c].years)

\* The day loop of lines 300-318 run by a call alone in a fresh process:
\* the path of total days from window seq, with the generator at rng.
RECURSIVE SoloPath(_, _, _, _, _)
SoloPath(seq, path, k, total, rng) ==
    IF k >= total THEN path
    ELSE LET sc == prepare_data(stock_data)
             raw == InverseTransform(sc, Predict(stock_model, InputSequence(seq)))
             shock == IF k > 0
                      THEN RandomNormal(rng, HistoricalVolatility(stock_data))
                      ELSE R(0)
             prev_price == IF path # <<>> THEN path[Len(path)]
                           ELSE stock_data[Len(stock_data)]
             next_pred == AdjustPrediction(k, raw, shock, prev_price)
         IN  SoloPath(Append(seq, Transform(sc, next_pred)), Append(path, next_pred),
                      k + 1, total, IF k > 0 THEN RandomAdvance(rng) ELSE rng)

\* the future_predictions a request for years returns when no other call
\* runs in the process
SoloForecast(years) ==
    SoloPath(TransformAll(prepare_data(stock_data), Tail_(stock_data, lookback_period)),
             <<>>, 0, total_days_of(years), 0)

\* C18: the future_predictions a call returns are those it returns when it
\* runs alone: they do not depend on whether or how another call ran.
C18_CallsIndependent ==
    \A c \in Calls :
        returned[c] => result[c].future_predictions = SoloForecast(request[c].years)

\* C19: a cancellation requested during day step k is seen at the latest
\* when step k + 1 starts: step k + 1 does not run, the call does not
\* assemble or return a result, and when it ends it has Failed.
C19_CancellationObserved ==
    \A c \in Calls :
        cancel_requested[c] # NotRequested =>
            /\ i[c] <= cancel_requested[c] + 1
            /\ pc[c] \in {"Simulating", "Failed"}
            /\ ~returned[c]

\* the user_id or the email of the call is on a row of the table
AlreadyPresent(table, call) ==
    \/ ExistingUser(table, call.user_id)
    \/ call.email # None /\ \E k \in 1 .. Len(table) : table[k].email = call.email

\* C20: no two rows of user_profiles, active or soft-deleted, share a
\* user_id or a non-null email, and a create_profile whose user_id or email
\* is already on a row raises ValueError and leaves the table as it was.
C20_ProfilesUnique ==
    /\ [](\A j, k \in 1 .. Len(user_profiles) :
             j # k =>
                 /\ user_profiles[j].user_id # user_profiles[k].user_id
                 /\ user_profiles[j].email # None =>
                        user_profiles[j].email # user_profiles[k].email)
    /\ [][(last_call'.op = "create_profile" /\ AlreadyPresent(user_profiles, last_call')) =>
              (last_call'.raised = "ValueError" /\ user_profiles' = user_profiles)]_vars

\* a create_profile was refused for the email of a soft-deleted row, next
\* to an active row of another user
C20_Witness ==
    /\ last_call.op = "create_profile"
    /\ last_call.raised = "ValueError"
    /\ ~ExistingUser(user_profiles, last_call.user_id)
    /\ \E k \in 1 .. Len(user_profiles) :
           user_profiles[k].email = last_call.email /\ ~user_profiles[k].is_active

\* user_id has a row and it is soft-deleted
SoftDeleted(table, user_id) ==
    \E k \in 1 .. Len(table) : table[k].user_id = user_id /\ ~table[k].is_active

\* C21: once delete_profile(u) has returned True the row of u stays, with
\* is_active = False for ever; get_profile_by_user_id(u) returns None,
\* get_profile_completeness(u) an error, update_profile(u, ...) returns
\* None and changes nothing, and another delete_profile(u) returns False.
C21_SoftDelete ==
    /\ [](\A u \in ProfileUserIds :
             SoftDeleted(user_profiles, u) =>
                 /\ ActiveRow(user_profiles, u) = 0
                 /\ "error" \in DOMAIN get_profile_completeness(user_profiles, u))
    /\ [][/\ Len(user_profiles') >= Len(user_profiles)
          /\ \A k \in 1 .. Len(user_profiles) :
                 /\ user_profiles'[k].user_id = user_profiles[k].user_id
                 /\ ~user_profiles[k].is_active => ~user_profiles'[k].is_active
          /\ (last_call'.op = "delete_profile" /\ last_call'.returned = "True") =>
                 SoftDeleted(user_profiles', last_call'.user_id)
          /\ \A u \in ProfileUserIds :
                 (SoftDeleted(user_profiles, u) /\ last_call'.user_id = u) =>
                     /\ last_call'.op = "update_profile" =>
                            last_call'.returned = None /\ user_profiles' = user_profiles
                     /\ last_call'.op = "delete_profile" =>
                            last_call'.returned = "False" /\ user_profiles' = user_profiles
         ]_vars

\* an update that sets fields was sent to a soft-deleted profile
C21_Witness ==
    /\ last_call.op = "update_profile"
    /\ last_call.fields_set # {}
    /\ last_call.returned = None
    /\ SoftDeleted(user_profiles, last_call.user_id)

\* C22: the test sequence can run again on the same database: when the
\* profile of a user_id was soft-deleted and no active row holds the
\* email, create_profile with that user_id and email succeeds and the
\* user has an active profile again.
C22_TestRepeatable ==
    [][(/\ last_call'.op = "create_profile"
        /\ SoftDeleted(user_profiles, last_call'.user_id)
        /\ ~ExistingEmail_ActiveOnly(user_profiles, last_call'.email)) =>
           (/\ last_call'.raised = ""
            /\ ActiveRow(user_profiles', last_call'.user_id) # 0)]_vars

\* C24: an update for a user_id without active profile is answered with
\* 404, a duplicate-email update with 400, and neither changes a row.
C24_UpdateStatus ==
    /\ [](last_call.op = "update_profile" =>
             /\ (last_call.raised = "" /\ last_call.returned = None) =>
                    last_call.status_code = 404
             /\ last_call.raised = "ValueError" => last_call.status_code = 400)
    /\ [][(/\ last_call'.op = "update_profile"
           /\ \/ ActiveRow(user_profiles, last_call'.user_id) = 0
              \/ last_call'.raised = "ValueError") =>
              user_profiles' = user_profiles]_vars

\* C25: update_profile changes, on the row of its user_id, only columns set
\* in the request; user_id and is_active, the columns not set, the rows of
\* other users and the number of rows stay.
C25_UpdateFrame ==
    [][last_call'.op = "update_profile" =>
          /\ Len(user_profiles') = Len(user_profiles)
          /\ \A k \in 1 .. Len(user_profiles) :
                 \A f \in DOMAIN user_profiles[k] :
                     user_profiles'[k][f] # user_profiles[k][f] =>
                         /\ user_profiles[k].user_id = last_call'.user_id
                         /\ f \in last_call'.fields_set
                         /\ f \notin {"user_id", "is_active"}]_vars

\* an update that set the age alone went through on a row with an email
C25_Witness ==
    /\ last_call.op = "update_profile"
    /\ last_call.fields_set = {"age"}
    /\ last_call.returned = "profile"
    /\ \E k \in 1 .. Len(user_profiles) :
           /\ user_profiles[k].user_id = last_call.user_id
           /\ user_profiles[k].email # None
           /\ user_profiles[k].age # None

\* C23: with an empty history the client receives status 404 and the
\* detail 'No data found for the given symbol', or 400 when the fetch
\* failed: the status raised inside the handler.
C23_StatusReachesClient ==
    \A c \in Calls :
        (pc[c] = "Failed" /\ stock_model # NoModel /\ stock_data = <<>>) =>
            \/ /\ error[c].status_code = 404
               /\ error[c].detail = "No data found for the given symbol"
            \/ error[c].status_code = 400

\* C26: a returned result is the one assembled from the path, whatever
\* user_id was and whether the save went through; the response step
\* changes neither result nor error and always completes the call; only
\* requests with a user_id write rows to stock_predictions.
C26_ResultIndependentOfSave ==
    /\ [](/\ \A k \in 1 .. Len(stock_predictions) : stock_predictions[k].user_id # ""
          /\ \A c \in Calls :
                 returned[c] =>
                     /\ pc[c] = "Completed"
                     /\ error[c] = NoError
                     /\ result[c].future_predictions = predictions[c]
                     /\ result[c].stats = Statistics(predictions[c], LastClose))
    /\ [][\A c \in Calls :
             (pc[c] = "Assembled" /\ pc'[c] # pc[c]) =>
                 /\ pc'[c] = "Completed"
                 /\ returned'[c]
                 /\ result' = result
                 /\ error' = error
                 /\ request[c].user_id = "" => stock_predictions' = stock_predictions]_vars

\* a forecast was returned although its save failed
C26_Witness ==
    \E c \in Calls :
        /\ returned[c]
        /\ request[c].user_id # ""
        /\ stock_predictions = <<>>

\* C28: when the first simulated price is > 0, every later price is > 0
\* and at least 0.8 times the price before it.
C28_PositivePathStaysPositive ==
    \A c \in Calls :
        (predictions[c] # <<>> /\ RLt(R(0), predictions[c][1])) =>
            \A k \in 2 .. Len(predictions[c]) :
                /\ RLt(R(0), predictions[c][k])
                /\ RLe(RMul(Q(4, 5), predictions[c][k - 1]), predictions[c][k])

AllFinite(p) == \A k \in 1 .. Len(p) : IsFinite(p[k])

\* 100 * min over k >= 2 of (p[k] / max(p[2 .. k]) - 1), for a path of at
\* least two finite prices
DrawdownFromSecondDay(p) ==
    LET rest == Tail(p)
        peak == MaxAccumulate(rest)
    IN  RMul(NpMin([k \in 1 .. Len(rest) |-> RSub(RDiv(rest[k], peak[k]), R(1))]), R(100))

\* the same with the running minimum in place of the running maximum
DrawdownFromSecondDayLow(p) ==
    LET rest == Tail(p)
        trough == MinAccumulate(rest)
    IN  RMul(NpMin([k \in 1 .. Len(rest) |-> RSub(RDiv(rest[k], trough[k]), R(1))]), R(100))

\* C29 as stated, for paths of finite prices whose first price is not 0:
\* max_drawdown = 100 * min over i >= 1 of (price[i] / max(price[1..i]) - 1).
C29_DrawdownFromSecondDay ==
    \A c \in Calls :
        (Finished(c) /\ AllFinite(predictions[c]) /\ ~REq(predictions[c][1], R(0))) =>
            result[c].stats.max_drawdown = DrawdownFromSecondDay(predictions[c])

\* C29, amended: the formula holds when every price is finite and the
\* first is > 0; when the first is < 0 the running minimum takes the place
\* of the running maximum; max_drawdown is NaN when the first price is 0 or
\* a price is NaN.
C29_DrawdownBySign ==
    \A c \in Calls :
        Finished(c) =>
            LET p == predictions[c]
                dd == result[c].stats.max_drawdown
            IN  IF AllFinite(p) /\ RLt(R(0), p[1]) THEN dd = DrawdownFromSecondDay(p)
                ELSE IF AllFinite(p) /\ RLt(p[1], R(0))
                THEN dd = DrawdownFromSecondDayLow(p)
                ELSE IsNaN(dd)

\* a finished path of positive prices that fell from the first to the
\* second day and rose afterwards: no drawdown is counted
C29_Witness ==
    \E c \in Calls :
        /\ Finished(c)
        /\ Len(predictions[c]) >= 3
        /\ AllFinite(predictions[c])
        /\ RLt(R(0), predictions[c][2])
        /\ RLt(predictions[c][2], predictions[c][1])
        /\ RLt(predictions[c][2], predictions[c][3])
        /\ result[c].stats.max_drawdown = R(0)

\* C27: of two interleaved creations with one user_id at most one adds a
\* row, and the other is answered with 400 as a sequential duplicate is.
C27_RaceLoserGets400 ==
    \A r, q \in Requests :
        (/\ r # q
         /\ in_flight[r].at = "answered"
         /\ in_flight[q].at = "answered"
         /\ in_flight[r].user_id = in_flight[q].user_id) =>
            /\ Cardinality({k \in 1 .. Len(user_profiles) :
                              user_profiles[k].user_id = in_flight[r].user_id}) <= 1
            /\ {in_flight[r].status_code, in_flight[q].status_code} = {201, 400}

\* C30: the completeness of an active profile splits the 12 important
\* fields into completed and missing ones, its percentage is
\* 100 * |completed| / 12, and its score lies between the percentage and 100
\* and exceeds the percentage only if investment_experience and
\* risk_tolerance are both set.
C30_Completeness ==
    (/\ last_call.op = "get_profile_completeness"
     /\ ActiveRow(user_profiles, last_call.user_id) # 0) =>
        LET res == last_call.returned
            profile == get_profile_by_user_id(user_profiles, last_call.user_id)
        IN  /\ "error" \notin DOMAIN res
            /\ Cardinality(ImportantFields) = 12
            /\ SeqRange(res.completed_fields) \cap SeqRange(res.missing_fields) = {}
            /\ SeqRange(res.completed_fields) \cup SeqRange(res.missing_fields)
                   = ImportantFields
            /\ Len(res.completed_fields) + Len(res.missing_fields) = 12
            /\ REq(res.completeness_percentage,
                   RDiv(R(100 * Len(res.completed_fields)), R(12)))
            /\ RLe(res.completeness_percentage, res.profile_score)
            /\ RLe(res.profile_score, R(100))
            /\ RLt(res.completeness_percentage, res.profile_score) =>
                   /\ profile.investment_experience \notin {None, ""}
                   /\ profile.risk_tolerance \notin {None, ""}

\* a profile with 11 of the 12 fields set, whose score the cap holds at 100
C30_Witness ==
    /\ last_call.op = "get_profile_completeness"
    /\ ActiveRow(user_profiles, last_call.user_id) # 0
    /\ Len(last_call.returned.completed_fields) = 11
    /\ last_call.returned.profile_score = R(100)
    /\ RLt(last_call.returned.completeness_percentage, R(100))

====
